---- MODULE Spec2Model ----
(***************************************************************************)
(* Healthcare Support Portal, RAG service: the vector store operations of  *)
(* rag_service/utils/embeddings.py and the request handlers of             *)
(* rag_service/routers/documents.py and rag_service/routers/chat.py.       *)
(*                                                                         *)
(* The specifications share the variables:                                 *)
(*   Spec        the request handlers running as concurrent processes on   *)
(*               one database;                                             *)
(*   SpecIngestion  Spec without regenerate_embeddings;                    *)
(*   SpecSearch  similarity_search applied to arbitrary arguments over a   *)
(*               store drawn from a bounded set;                           *)
(*   SpecCtx     combine_chunks_for_context applied to bounded inputs;     *)
(*   SpecEmbed, SpecChunk, SpecDim, SpecPrompt, SpecTokens                 *)
(*               single functions applied to bounded inputs;               *)
(*   SpecSeed    the seeding script of common/seed_data.py, run repeatedly;*)
(*   SpecSync    the handlers that write authorization facts, those of     *)
(*               auth_service/routers/users.py included.                   *)
(*                                                                         *)
(* Texts are sequences of characters.  Similarities and token estimates    *)
(* are kept in tenths (0.3 is 3, 1.3 tokens per word is 13).               *)
(***************************************************************************)
EXTENDS Integers, Sequences, FiniteSets, TLC

VARIABLES
    documents,    \* documents table: id -> [title, content]
    embeddings,   \* embeddings table: set of committed rows
    nextDocId,    \* documents.id sequence
    nextEmbId,    \* embeddings.id sequence
    osoFacts,     \* document ids whose access facts are in the policy service
    pc,           \* per process: position in its request handler
    loc,          \* per process: the handler's local variables and response
    call,         \* SpecSearch / SpecCtx: the last call, arguments and result
    users,        \* users table: id -> [username, email, role, ...]
    patients,     \* patients table: id -> [name, medical_record_number, ...]
    userFacts     \* user ids whose facts are in the policy service

vars == <<documents, embeddings, nextDocId, nextEmbId, osoFacts, pc, loc, call,
          users, patients, userFacts>>

----------------------------------------------------------------------------
(* Bounds *)

MaxDocs == 2        \* documents ever created in one behaviour
MaxEmbId == 4       \* embedding ids ever handed out in one behaviour
MaxText == 4        \* sample texts have 0..MaxText characters
MaxRows == 3        \* SpecSearch: rows in the drawn store
MaxLimit == 2       \* largest limit / max_results a request carries
MaxTokens == 4      \* SpecCtx: largest max_tokens
MaxLen == 2         \* SpecCtx: chunk texts have 0..MaxLen characters
MaxCtxResults == 2  \* SpecCtx: longest result list
MaxRequestLimit == 1 \* Spec: largest limit / max_results in a request

(* Program constants (rag_service/config.py), similarities in tenths *)
similarity_threshold == 3
max_results == 5
max_context_length == 8000

DocIds == 1..MaxDocs
\* Two request handlers run concurrently: one serves the ingestion requests
\* (create_document, upload_document), the other every other request.
Ingesters == {1}
Requesters == {2}
Procs == Ingesters \cup Requesters

----------------------------------------------------------------------------
(* Texts *)

Chars == {"a", " "}
Whitespace == {" ", "\n"}

\* the sample text of n characters: "a a a ..." (words separated by one space)
SampleText(n) == [i \in 1..n |-> IF i % 2 = 1 THEN "a" ELSE " "]

Texts == {SampleText(n) : n \in 0..MaxText}

Abs(x) == IF x < 0 THEN -x ELSE x
Min(a, b) == IF a < b THEN a ELSE b
Range(s) == {s[i] : i \in DOMAIN s}

\* len(chunk.split()): the number of maximal runs of non-whitespace characters
WordCount(text) ==
    Cardinality({i \in 1..Len(text) :
                    text[i] \notin Whitespace
                        /\ (i = 1 \/ text[i - 1] \in Whitespace)})

----------------------------------------------------------------------------
(* Embedding provider and pgvector *)

\* what the embedding provider answers for a text: a fixed vector per text
ProviderVector(text) == <<Len(text)>>

\* generate_embedding: the provider's vector, or [] when the call raised
generate_embedding(text, ok) == IF ok THEN ProviderVector(text) ELSE <<>>

\* 1 - (e.embedding_vector <=> q), in tenths
CosineSimilarity(q, v) ==
    LET d == Abs(q[1] - v[1])
    IN  CASE d = 0 -> 10
          [] d = 1 -> 9
          [] d = 2 -> 8
          [] d = 3 -> 5
          [] OTHER -> 3

----------------------------------------------------------------------------
(* similarity_search *)

NoIds == <<>>               \* document_ids=None
SomeIds(S) == <<S>>         \* document_ids=[...], the list taken as a set

\* all orders in which the rows of S can be listed
Orderings(S) ==
    {o \in [1..Cardinality(S) -> S] :
        \A i, j \in 1..Cardinality(S) : i # j => o[i] # o[j]}

\* faulty variant: the IN (...) condition is never appended
DocumentIdFilterDropped(document_ids, e) == TRUE

\* "if document_ids:" and the IN (...) condition it appends to the WHERE clause
DocumentIdFilter(document_ids, e) ==
    IF document_ids # NoIds /\ document_ids[1] # {}
    THEN e.document_id \in document_ids[1]
    ELSE TRUE

\* FROM embeddings e JOIN documents d ... WHERE similarity > threshold [AND IN]
MatchingRows(docs, embs, qv, threshold, document_ids) ==
    {e \in embs :
        /\ e.document_id \in DOMAIN docs
        /\ CosineSimilarity(qv, e.embedding_vector) > threshold
        /\ DocumentIdFilter(document_ids, e)}

\* faulty variant: the LIMIT is not applied
OrderedRowsUnlimited(rows, qv, limit) ==
    {o \in Orderings(rows) :
        \A i \in 1..(Len(o) - 1) :
            CosineSimilarity(qv, o[i].embedding_vector)
                >= CosineSimilarity(qv, o[i + 1].embedding_vector)}

\* ORDER BY similarity DESC LIMIT n: rows of equal similarity come in any order
OrderedRows(rows, qv, limit) ==
    {SubSeq(o, 1, Min(limit, Len(o))) :
        o \in {s \in Orderings(rows) :
                  \A i \in 1..(Len(s) - 1) :
                      CosineSimilarity(qv, s[i].embedding_vector)
                          >= CosineSimilarity(qv, s[i + 1].embedding_vector)}}

\* one row of the result, converted to the dictionary the function returns
ResultDict(e, docs, qv) ==
    [embedding_id   |-> e.id,
     document_id    |-> e.document_id,
     content_chunk  |-> e.content_chunk,
     chunk_index    |-> e.chunk_index,
     document_title |-> docs[e.document_id].title,
     similarity     |-> CosineSimilarity(qv, e.embedding_vector)]

\* The results similarity_search can return.  embOk: the embedding call for
\* the query succeeded; dbOk: db.execute did not raise.  A negative LIMIT is
\* rejected by the database, which raises as well.
similarity_search(docs, embs, query_text, limit, threshold, document_ids, embOk, dbOk) ==
    LET qv == generate_embedding(query_text, embOk)
    IN  IF qv = <<>> THEN {<<>>}
        ELSE IF ~dbOk \/ limit < 0 THEN {<<>>}
        ELSE {[i \in 1..Len(o) |-> ResultDict(o[i], docs, qv)] :
                 o \in OrderedRows(
                          MatchingRows(docs, embs, qv, threshold, document_ids),
                          qv, limit)}

----------------------------------------------------------------------------
(* SpecSearch: similarity_search over a drawn store *)

EmptyTable == [d \in {} |-> 0]
NoCall == [op |-> "none"]
IdleLoc == [op |-> "idle"]

Thresholds == {similarity_threshold, 6, 8}
Limits == (0 - 1)..MaxLimit
QueryTexts == {SampleText(0), SampleText(1)}
ChunkTexts == {SampleText(n) : n \in 1..MaxText}
IdArguments == {NoIds} \cup {SomeIds(S) : S \in SUBSET DocIds}

\* the rows a sequence of (document, chunk text) insertions leaves behind
RowsOf(ins) ==
    {[id               |-> k,
      document_id      |-> ins[k][1],
      content_chunk    |-> ins[k][2],
      embedding_vector |-> ProviderVector(ins[k][2]),
      chunk_index      |-> Cardinality({j \in 1..(k - 1) : ins[j][1] = ins[k][1]})] :
        k \in 1..Len(ins)}

ContentOf(ins, d) ==
    LET ks == {k \in 1..Len(ins) : ins[k][1] = d}
        nth(i) == CHOOSE k \in ks : Cardinality({j \in ks : j < k}) = i - 1
    IN  [i \in 1..Cardinality(ks) |-> ins[nth(i)][2]]

InitSearch ==
    /\ \E ins \in UNION {[1..n -> DocIds \X ChunkTexts] : n \in 0..MaxRows} :
        /\ documents = [d \in DocIds |->
                          [title |-> SampleText(1), content |-> ContentOf(ins, d)]]
        /\ embeddings = RowsOf(ins)
        /\ nextEmbId = Len(ins) + 1
    /\ nextDocId = MaxDocs + 1
    /\ osoFacts = DocIds
    /\ pc = [p \in Procs |-> "idle"]
    /\ loc = [p \in Procs |-> IdleLoc]
    /\ call = NoCall
    /\ users = EmptyTable
    /\ patients = EmptyTable
    /\ userFacts = {}

SearchCall ==
    /\ call = NoCall
    /\ \E q \in QueryTexts, limit \in Limits, threshold \in Thresholds,
       ids \in IdArguments, embOk \in BOOLEAN, dbOk \in BOOLEAN :
        \E r \in similarity_search(documents, embeddings, q, limit, threshold,
                                   ids, embOk, dbOk) :
            call' = [op |-> "similarity_search", query_text |-> q,
                        limit |-> limit, similarity_threshold |-> threshold,
                        document_ids |-> ids, embOk |-> embOk, dbOk |-> dbOk,
                        result |-> r]
    /\ UNCHANGED <<documents, embeddings, nextDocId, nextEmbId, osoFacts, pc, loc,
                   users, patients, userFacts>>

NextSearch == SearchCall

SpecSearch == InitSearch /\ [][NextSearch]_vars

----------------------------------------------------------------------------
(* combine_chunks_for_context *)

\* chunk_tokens = len(chunk.split()) * 1.3, in tenths of a token
ChunkTokens(chunk) == WordCount(chunk) * 13

\* f"Document: {title}\nContent: {chunk}\n---\n"; the literal words are
\* single elements of the string
ContextPart(title, chunk) ==
    <<"Document:", " ">> \o title \o <<"\n", "Content:", " ">> \o chunk
        \o <<"\n", "---", "\n">>

\* the for loop: context_parts from result i on, current_tokens so far
RECURSIVE ContextParts(_, _, _, _)
ContextParts(search_results, i, current_tokens, max_tokens) ==
    IF i > Len(search_results) THEN <<>>
    ELSE LET chunk_tokens == ChunkTokens(search_results[i].content_chunk)
         IN  IF current_tokens + chunk_tokens > 10 * max_tokens
             THEN <<>>
             ELSE <<ContextPart(search_results[i].document_title,
                                search_results[i].content_chunk)>>
                  \o ContextParts(search_results, i + 1,
                                  current_tokens + chunk_tokens, max_tokens)

\* "\n".join(parts)
RECURSIVE JoinLines(_)
JoinLines(parts) ==
    IF parts = <<>> THEN <<>>
    ELSE IF Len(parts) = 1 THEN parts[1]
    ELSE parts[1] \o <<"\n">> \o JoinLines(Tail(parts))

combine_chunks_for_context(search_results, max_tokens) ==
    JoinLines(ContextParts(search_results, 1, 0, max_tokens))

----------------------------------------------------------------------------
(* SpecCtx: combine_chunks_for_context over drawn result lists *)

CtxTexts == UNION {[1..n -> Chars] : n \in 0..MaxLen}
CtxTitles == {SampleText(1), SampleText(3)}
CtxResults == [content_chunk : CtxTexts, document_title : CtxTitles]
CtxResultLists == UNION {[1..n -> CtxResults] : n \in 0..MaxCtxResults}

InitCtx ==
    /\ documents = EmptyTable
    /\ embeddings = {}
    /\ nextDocId = 1
    /\ nextEmbId = 1
    /\ osoFacts = {}
    /\ pc = [p \in Procs |-> "idle"]
    /\ loc = [p \in Procs |-> IdleLoc]
    /\ call = NoCall
    /\ users = EmptyTable
    /\ patients = EmptyTable
    /\ userFacts = {}

CombineCall ==
    /\ call = NoCall
    /\ \E rs \in CtxResultLists, max_tokens \in 0..MaxTokens :
        call' = [op |-> "combine_chunks_for_context", search_results |-> rs,
                 max_tokens |-> max_tokens,
                 result |-> combine_chunks_for_context(rs, max_tokens)]
    /\ UNCHANGED <<documents, embeddings, nextDocId, nextEmbId, osoFacts, pc, loc,
                   users, patients, userFacts>>

NextCtx == CombineCall

SpecCtx == InitCtx /\ [][NextCtx]_vars

----------------------------------------------------------------------------
(* Spec: the request handlers.  A process is idle, or inside one handler;    *)
(* a finished handler leaves its response in loc until the process returns. *)

Roles == {"doctor", "nurse", "admin"}
IngestOps == {"create_document", "upload_document"}
MainTitle == SampleText(1)
MainQuery == SampleText(0)

\* The chunk sequences chunk_text(clean_text(content)) yields for the contents
\* requests carry.  A document's content is kept as that sequence.
Contents ==
    {<<SampleText(1)>>, <<SampleText(1), SampleText(MaxText)>>}

RowsOfDocument(embs, d) == {e \in embs : e.document_id = d}

Init ==
    /\ documents = EmptyTable
    /\ embeddings = {}
    /\ nextDocId = 1
    /\ nextEmbId = 1
    /\ osoFacts = {}
    /\ pc = [p \in Procs |-> "idle"]
    /\ loc = [p \in Procs |-> IdleLoc]
    /\ call = NoCall
    /\ users = EmptyTable
    /\ patients = EmptyTable
    /\ userFacts = {}

Finish(p, response) ==
    /\ pc' = [pc EXCEPT ![p] = "done"]
    /\ loc' = [loc EXCEPT ![p] = response]

\* db.add(db_document); db.commit(); db.refresh(db_document)
InsertDocument(docs, id, title, content) ==
    [d \in DOMAIN docs \cup {id} |->
        IF d = id THEN [title |-> title, content |-> content] ELSE docs[d]]

\* create_document / upload_document up to the committed document row and the
\* chunking of its content.  The two handlers differ in how the content
\* arrives (upload_document reads a file, 400 when it cannot be decoded) and
\* run the same steps from there, so one handler position stands for both.
CreateDocument(p) ==
    /\ p \in Ingesters
    /\ pc[p] = "idle"
    /\ \E op \in IngestOps, role \in Roles, content \in Contents,
          readable \in BOOLEAN :
        IF role \notin {"doctor", "admin"}
        THEN /\ Finish(p, [op |-> op, status |-> 403])
             /\ UNCHANGED <<documents, nextDocId>>
        ELSE IF op = "upload_document" /\ ~readable
        THEN /\ Finish(p, [op |-> op, status |-> 400])
             /\ UNCHANGED <<documents, nextDocId>>
        ELSE /\ nextDocId <= MaxDocs
             /\ documents' = InsertDocument(documents, nextDocId, MainTitle, content)
             /\ nextDocId' = nextDocId + 1
             /\ pc' = [pc EXCEPT ![p] = "embed"]
             /\ loc' = [loc EXCEPT ![p] =
                          [op |-> "create_document", document_id |-> nextDocId,
                           chunks |-> content, i |-> 0, pending |-> <<>>]]
    /\ UNCHANGED <<embeddings, nextEmbId, osoFacts, call,
                   users, patients, userFacts>>

\* faulty variant: a row is numbered by the rows added before it
AddChunkCountingStored(pending, document_id, i, chunk, embedding_vector) ==
    IF embedding_vector = <<>>
    THEN pending
    ELSE Append(pending, [document_id      |-> document_id,
                          content_chunk    |-> chunk,
                          embedding_vector |-> embedding_vector,
                          chunk_index      |-> Len(pending)])

\* faulty variant: the rows are numbered from 1
AddChunkOneBased(pending, document_id, i, chunk, embedding_vector) ==
    IF embedding_vector = <<>>
    THEN pending
    ELSE Append(pending, [document_id      |-> document_id,
                          content_chunk    |-> chunk,
                          embedding_vector |-> embedding_vector,
                          chunk_index      |-> i + 1])

\* store_document_embeddings, one iteration of the loop over enumerate(chunks):
\* a chunk whose embedding came back empty is skipped, any other is added to
\* the session with its index
AddChunk(pending, document_id, i, chunk, embedding_vector) ==
    IF embedding_vector = <<>>
    THEN pending
    ELSE Append(pending, [document_id      |-> document_id,
                          content_chunk    |-> chunk,
                          embedding_vector |-> embedding_vector,
                          chunk_index      |-> i])

\* the rows a commit of the pending session rows inserts, ids from the sequence
InsertedRows(pending, firstId) ==
    {[id               |-> firstId + k - 1,
      document_id      |-> pending[k].document_id,
      content_chunk    |-> pending[k].content_chunk,
      embedding_vector |-> pending[k].embedding_vector,
      chunk_index      |-> pending[k].chunk_index] : k \in 1..Len(pending)}

\* faulty variant: every added row is written to the table at once
SessionAddWrittenThrough(embs, pending, firstId) ==
    embs \cup InsertedRows(pending, firstId)

\* db.add(db_embedding): the row waits in the session (autoflush and
\* autocommit are off) and the table other sessions read stays as it is
SessionAdd(embs, pending, firstId) == embs

EmbedChunk(p) ==
    /\ pc[p] = "embed"
    /\ loc[p].i < Len(loc[p].chunks)
    /\ \E ok \in BOOLEAN :
        LET chunk == loc[p].chunks[loc[p].i + 1]
            pending == AddChunk(loc[p].pending, loc[p].document_id, loc[p].i,
                                chunk, generate_embedding(chunk, ok))
        IN  /\ loc' = [loc EXCEPT ![p].i = @ + 1, ![p].pending = pending]
            /\ embeddings' = SessionAdd(embeddings, pending, nextEmbId)
    /\ UNCHANGED <<documents, nextDocId, nextEmbId, osoFacts, pc, call,
                   users, patients, userFacts>>

\* embeddings.document_id references documents.id: an insert for a document
\* that is gone fails
ForeignKeyHolds(docs, pending) ==
    \A k \in 1..Len(pending) : pending[k].document_id \in DOMAIN docs

\* faulty variant: the rows of a failed pass are not rolled back
CommitWithoutRollback(embs, pending, firstId, success) ==
    embs \cup InsertedRows(pending, firstId)

\* db.commit() of the session rows, or db.rollback() when it raised
CommitOrRollback(embs, pending, firstId, success) ==
    IF success THEN embs \cup InsertedRows(pending, firstId) ELSE embs

\* faulty variant: the exception of a failed synchronisation leaves the handler
SyncFailureRaised(syncOk) == syncOk

\* "try: <synchronise the facts> except Exception as e: print(...)": the
\* handler goes on to its next statement whether or not the call raised
HandlerContinues(syncOk) == TRUE

\* store_document_embeddings from db.commit() on (commit, or rollback and
\* False), then the rest of the handler: the warning, sync_document_access
\* (a failure is caught and logged) and the returned document
CommitEmbeddings(p) ==
    /\ pc[p] = "embed"
    /\ loc[p].i = Len(loc[p].chunks)
    /\ nextEmbId + Len(loc[p].pending) <= MaxEmbId + 1
    /\ \E dbOk \in BOOLEAN, syncOk \in BOOLEAN :
        LET success == dbOk /\ ForeignKeyHolds(documents, loc[p].pending)
        IN  /\ embeddings' =
                 CommitOrRollback(embeddings, loc[p].pending, nextEmbId, success)
            /\ nextEmbId' =
                 IF success THEN nextEmbId + Len(loc[p].pending) ELSE nextEmbId
            /\ osoFacts' =
                 IF syncOk THEN osoFacts \cup {loc[p].document_id} ELSE osoFacts
            /\ Finish(p, [op |-> loc[p].op,
                          status |-> IF HandlerContinues(syncOk) THEN 200 ELSE 500,
                          document_id |-> loc[p].document_id,
                          pass_rows |-> Len(loc[p].pending),
                          embedding_success |-> success])
    /\ UNCHANGED <<documents, nextDocId, call,
                   users, patients, userFacts>>

\* faulty variant: the delete does not cascade
CascadeDeleteMissing(embs, d) == embs

\* db.delete(document); db.commit(): the embeddings relationship of the
\* Document model cascades the delete to the document's embedding rows
CascadeDelete(embs, d) == {e \in embs : e.document_id # d}

DeleteRow(docs, d) == [x \in DOMAIN docs \ {d} |-> docs[x]]

\* delete_document up to remove_document_access: the lookup (404), the write
\* authorization (403) and the removal of the access facts, whose failure is
\* caught and logged
DeleteDocument(p) ==
    /\ p \in Requesters
    /\ pc[p] = "idle"
    /\ \E d \in DocIds, authorized \in BOOLEAN, removeOk \in BOOLEAN :
        IF d \notin DOMAIN documents
        THEN /\ Finish(p, [op |-> "delete_document", status |-> 404])
             /\ UNCHANGED osoFacts
        ELSE IF ~authorized
        THEN /\ Finish(p, [op |-> "delete_document", status |-> 403])
             /\ UNCHANGED osoFacts
        ELSE IF ~HandlerContinues(removeOk)
        THEN /\ Finish(p, [op |-> "delete_document", status |-> 500])
             /\ UNCHANGED osoFacts
        ELSE /\ osoFacts' = IF removeOk THEN osoFacts \ {d} ELSE osoFacts
             /\ pc' = [pc EXCEPT ![p] = "delete"]
             /\ loc' = [loc EXCEPT ![p] =
                          [op |-> "delete_document", document_id |-> d]]
    /\ UNCHANGED <<documents, embeddings, nextDocId, nextEmbId, call,
                   users, patients, userFacts>>

\* delete_document: db.delete(document); db.commit().  No other delete runs
\* meanwhile (one process serves the delete requests), so the row is there.
DeleteCommit(p) ==
    /\ pc[p] = "delete"
    /\ loc[p].document_id \in DOMAIN documents
    /\ documents' = DeleteRow(documents, loc[p].document_id)
    /\ embeddings' = CascadeDelete(embeddings, loc[p].document_id)
    /\ Finish(p, [op |-> "delete_document", status |-> 200,
                  document_id |-> loc[p].document_id,
                  had_rows |-> RowsOfDocument(embeddings, loc[p].document_id) # {}])
    /\ UNCHANGED <<nextDocId, nextEmbId, osoFacts, call,
                   users, patients, userFacts>>

\* faulty variant: the new rows are merged into the old ones
replace_chunks_merging(embs, d, newRows) == embs \cup newRows

\* replace_chunks: in one transaction, delete the document's embedding rows
\* and insert the new set
replace_chunks(embs, d, newRows) == CascadeDelete(embs, d) \cup newRows

\* the session rows of a pass in which every chunk was embedded
AllPending(d, chunks) ==
    [k \in 1..Len(chunks) |->
        [document_id      |-> d,
         content_chunk    |-> chunks[k],
         embedding_vector |-> ProviderVector(chunks[k]),
         chunk_index      |-> k - 1]]

\* regenerate_embeddings: lookup (404), write authorization (403), then
\* regenerate_document_embeddings, which replaces the document's rows or, on
\* failure, leaves them as they were (500)
RegenerateEmbeddings(p) ==
    /\ p \in Requesters
    /\ pc[p] = "idle"
    /\ \E d \in DocIds, authorized \in BOOLEAN, ok \in BOOLEAN :
        IF d \notin DOMAIN documents
        THEN /\ Finish(p, [op |-> "regenerate_embeddings", status |-> 404])
             /\ UNCHANGED <<embeddings, nextEmbId>>
        ELSE IF ~authorized
        THEN /\ Finish(p, [op |-> "regenerate_embeddings", status |-> 403])
             /\ UNCHANGED <<embeddings, nextEmbId>>
        ELSE IF ~ok
        THEN /\ Finish(p, [op |-> "regenerate_embeddings", status |-> 500,
                           document_id |-> d])
             /\ UNCHANGED <<embeddings, nextEmbId>>
        ELSE LET chunks == documents[d].content
                 newRows == InsertedRows(AllPending(d, chunks), nextEmbId)
             IN  /\ nextEmbId + Len(chunks) <= MaxEmbId + 1
                 /\ embeddings' = replace_chunks(embeddings, d, newRows)
                 /\ nextEmbId' = nextEmbId + Len(chunks)
                 /\ Finish(p, [op |-> "regenerate_embeddings", status |-> 200,
                               document_id |-> d,
                               old_ids |-> {e.id : e \in RowsOfDocument(embeddings, d)},
                               new_ids |-> {e.id : e \in newRows}])
    /\ UNCHANGED <<documents, nextDocId, osoFacts, call,
                   users, patients, userFacts>>

\* "search_request.limit or settings.max_results"
EffectiveLimit(limit) == IF limit = 0 THEN max_results ELSE limit

Raised == <<>>
Returned(v) == <<v>>

\* faulty variant: a failing policy service is answered with the unfiltered query
AuthorizedDocIdsFailOpen(docs, authOk, allowedByPolicy) ==
    IF authOk
    THEN Returned({d \in DOMAIN docs : d \in allowedByPolicy})
    ELSE Returned(DOMAIN docs)

\* authorized_query.all() and the list of ids made of it: the policy service
\* allows some of the documents and the request's filters (document type,
\* department, patient) keep some of those, so allowedByPolicy stands for
\* the ids left after both.  authOk = FALSE: the policy service call raised
\* and nothing in the handler catches it.
AuthorizedDocIds(docs, authOk, allowedByPolicy) ==
    IF authOk
    THEN Returned({d \in DOMAIN docs : d \in allowedByPolicy})
    ELSE Raised

\* faulty variant: the search is issued whatever the list holds
HasDocumentsUnchecked(authorized_doc_ids) == TRUE

\* "if not authorized_doc_ids" of search_documents and "if authorized_doc_ids"
\* of ask_question: a list is true when it has an element
HasDocuments(authorized_doc_ids) == authorized_doc_ids # {}

\* search_documents and ask_question up to "authorized_doc_ids": the handler
\* ends here when the policy service fails (the exception leaves the handler,
\* 500) and, for search_documents, when no document is authorized
Authorize(p) ==
    /\ p \in Requesters
    /\ pc[p] = "idle"
    /\ \E op \in {"search_documents", "ask_question"}, limit \in 0..MaxRequestLimit,
          authOk \in BOOLEAN, allowedByPolicy \in SUBSET DocIds :
        LET authorized == AuthorizedDocIds(documents, authOk, allowedByPolicy)
        IN  IF authorized = Raised
            THEN Finish(p, [op |-> op, status |-> 500, authOk |-> authOk,
                            search_outcome |-> "none", results |-> <<>>,
                            generated |-> FALSE])
            ELSE IF op = "search_documents" /\ ~HasDocuments(authorized[1])
            THEN Finish(p, [op |-> op, status |-> 200, authOk |-> authOk,
                            authorized_doc_ids |-> {}, search_outcome |-> "none",
                            results |-> <<>>, total_results |-> 0,
                            generated |-> FALSE])
            ELSE /\ pc' = [pc EXCEPT ![p] = "query"]
                 /\ loc' = [loc EXCEPT ![p] =
                              [op |-> op, authOk |-> authOk,
                               query |-> MainQuery, limit |-> limit,
                               authorized_doc_ids |-> authorized[1]]]
    /\ UNCHANGED <<documents, embeddings, nextDocId, nextEmbId, osoFacts, call,
                   users, patients, userFacts>>

\* how a similarity_search call went: the embedding call for the query
\* raised, db.execute raised, or neither
SearchOutcomes == {"ok", "embedding_error", "query_error"}

\* search_documents from the similarity_search call on
SearchDocuments(p) ==
    /\ pc[p] = "query"
    /\ loc[p].op = "search_documents"
    /\ \E outcome \in SearchOutcomes :
        \E results \in similarity_search(documents, embeddings, loc[p].query,
                                         EffectiveLimit(loc[p].limit),
                                         similarity_threshold,
                                         SomeIds(loc[p].authorized_doc_ids),
                                         outcome # "embedding_error",
                                         outcome # "query_error") :
            Finish(p, [op |-> "search_documents", status |-> 200,
                       authOk |-> loc[p].authOk,
                       authorized_doc_ids |-> loc[p].authorized_doc_ids,
                       search_outcome |-> outcome,
                       results |-> results, total_results |-> Len(results),
                       generated |-> FALSE])
    /\ UNCHANGED <<documents, embeddings, nextDocId, nextEmbId, osoFacts, call,
                   users, patients, userFacts>>

\* faulty variant: the nurse entry is missing from the lookup
SystemPromptWithoutNurse(user_role) ==
    CASE user_role = "doctor" -> "doctor_prompt"
      [] OTHER                -> "admin_prompt"

\* system_prompts.get(user_role, system_prompts["admin"])
SystemPrompt(user_role) ==
    CASE user_role = "doctor" -> "doctor_prompt"
      [] user_role = "nurse"  -> "nurse_prompt"
      [] OTHER                -> "admin_prompt"

\* faulty variant: a failed provider call is not turned into the apology text
generate_ai_response_raising(question, context_results, user_role, genOk) ==
    [messages   |-> <<>>,
     context    |-> IF context_results # <<>>
                    THEN combine_chunks_for_context(context_results, max_context_length)
                    ELSE <<>>,
     text       |-> IF genOk THEN "generated" ELSE "raised",
     disclaimer |-> FALSE]

\* generate_ai_response: the context, the messages of the generation call,
\* and the text returned (genOk = FALSE: the provider call raised)
generate_ai_response(question, context_results, user_role, genOk) ==
    LET context == IF context_results # <<>>
                   THEN combine_chunks_for_context(context_results, max_context_length)
                   ELSE <<>>
        messages == <<[role |-> "system", content |-> SystemPrompt(user_role)]>>
                    \o (IF context # <<>>
                        THEN <<[role |-> "system", content |-> context]>>
                        ELSE <<>>)
                    \o <<[role |-> "user", content |-> question]>>
    IN  [messages   |-> messages,
         context    |-> context,
         text       |-> IF genOk THEN "generated" ELSE "apology",
         disclaimer |-> genOk /\ context = <<>>]

\* ask_question from "sources = []" on: the search when some document is
\* authorized, then the generation call and the response
AskQuestion(p) ==
    /\ pc[p] = "query"
    /\ loc[p].op = "ask_question"
    /\ \E outcome \in IF HasDocuments(loc[p].authorized_doc_ids)
                        THEN SearchOutcomes ELSE {"none"},
          genOk \in BOOLEAN, role \in Roles :
        \E search_results \in
              IF HasDocuments(loc[p].authorized_doc_ids)
              THEN similarity_search(documents, embeddings, loc[p].query,
                                     EffectiveLimit(loc[p].limit),
                                     similarity_threshold,
                                     SomeIds(loc[p].authorized_doc_ids),
                                     outcome # "embedding_error",
                                     outcome # "query_error")
              ELSE {<<>>} :
            LET sources == search_results
                context_used == Len(search_results) > 0
                ai == generate_ai_response(loc[p].query, sources, role, genOk)
            IN  Finish(p, [op |-> "ask_question", status |-> 200,
                           authOk |-> loc[p].authOk,
                           authorized_doc_ids |-> loc[p].authorized_doc_ids,
                           search_outcome |-> outcome,
                           results |-> sources, context_used |-> context_used,
                           generated |-> TRUE, genOk |-> genOk,
                           context |-> ai.context,
                           response |-> ai.text, disclaimer |-> ai.disclaimer])
    /\ UNCHANGED <<documents, embeddings, nextDocId, nextEmbId, osoFacts, call,
                   users, patients, userFacts>>

\* the response has been sent; the process takes the next request
Return(p) ==
    /\ pc[p] = "done"
    /\ pc' = [pc EXCEPT ![p] = "idle"]
    /\ loc' = [loc EXCEPT ![p] = IdleLoc]
    /\ UNCHANGED <<documents, embeddings, nextDocId, nextEmbId, osoFacts, call,
                   users, patients, userFacts>>

Next ==
    \E p \in Procs :
        \/ CreateDocument(p)
        \/ EmbedChunk(p)
        \/ CommitEmbeddings(p)
        \/ DeleteDocument(p)
        \/ DeleteCommit(p)
        \/ RegenerateEmbeddings(p)
        \/ Authorize(p)
        \/ SearchDocuments(p)
        \/ AskQuestion(p)
        \/ Return(p)

Spec == Init /\ [][Next]_vars

\* Spec without regenerate_embeddings, whose store operation
\* (regenerate_document_embeddings) is modelled from its specification
NextIngestion ==
    \E p \in Procs :
        \/ CreateDocument(p)
        \/ EmbedChunk(p)
        \/ CommitEmbeddings(p)
        \/ DeleteDocument(p)
        \/ DeleteCommit(p)
        \/ Authorize(p)
        \/ SearchDocuments(p)
        \/ AskQuestion(p)
        \/ Return(p)

SpecIngestion == Init /\ [][NextIngestion]_vars

----------------------------------------------------------------------------
(* Claims about similarity_search, checked under SpecSearch *)

SearchDone == call.op = "similarity_search"

\* the rows the claims call eligible: document in the allow-list S and
\* similarity to the query strictly above the threshold
EligibleRows(S, q, threshold) ==
    {e \in embeddings :
        /\ e.document_id \in S
        /\ CosineSimilarity(ProviderVector(q), e.embedding_vector) > threshold}

\* C1: similarity_search called with an empty allow-list of document ids
\* returns an empty result list, whatever rows the store holds.
C1_EmptyAllowListReturnsNothing ==
    (SearchDone /\ call.document_ids = SomeIds({})) => call.result = <<>>

\* C2: every returned row has its document_id in the supplied allow-list and
\* a similarity strictly greater than the threshold, and when the eligible
\* rows do not exceed the limit (and the call did not fail) all of them are
\* returned.
C2_ResultsAllowedAndAboveThreshold ==
    (SearchDone /\ call.document_ids # NoIds) =>
        LET S == call.document_ids[1]
            eligible == EligibleRows(S, call.query_text, call.similarity_threshold)
            returned == {call.result[i].embedding_id : i \in DOMAIN call.result}
        IN  /\ \A i \in DOMAIN call.result :
                /\ call.result[i].document_id \in S
                /\ call.result[i].similarity > call.similarity_threshold
            /\ (call.embOk /\ call.dbOk /\ call.limit >= Cardinality(eligible))
                  => returned = {e.id : e \in eligible}

----------------------------------------------------------------------------
(* Claims about combine_chunks_for_context, checked under SpecCtx *)

CombineDone == call.op = "combine_chunks_for_context"

\* the number of blocks in a context string
BlockCount(context) ==
    Cardinality({i \in 1..Len(context) : context[i] = "Document:"})

\* the formatted blocks of the first n results, joined
PrefixBlocks(rs, n) ==
    JoinLines([i \in 1..n |-> ContextPart(rs[i].document_title, rs[i].content_chunk)])

\* the estimate of the chunk texts of the first n results, in tenths
RECURSIVE PrefixChunkTokens(_, _)
PrefixChunkTokens(rs, n) ==
    IF n = 0 THEN 0
    ELSE PrefixChunkTokens(rs, n - 1) + ChunkTokens(rs[n].content_chunk)

\* the output is the first n blocks, in input order, where n is the longest
\* prefix whose cumulative chunk estimate fits max_tokens
C10_LongestFittingPrefix ==
    CombineDone =>
        LET rs == call.search_results
            n == BlockCount(call.result)
        IN  /\ n <= Len(rs)
            /\ call.result = PrefixBlocks(rs, n)
            /\ PrefixChunkTokens(rs, n) <= 10 * call.max_tokens
            /\ n < Len(rs) => PrefixChunkTokens(rs, n + 1) > 10 * call.max_tokens

\* C10: combine_chunks_for_context outputs exactly the longest prefix of the
\* results that fits the budget, in input order, and the estimated token cost
\* of the blocks in the output (title plus chunk text, as formatted) never
\* exceeds max_tokens.
C10_OutputWithinBudget ==
    /\ C10_LongestFittingPrefix
    /\ CombineDone => 13 * WordCount(call.result) <= 10 * call.max_tokens

----------------------------------------------------------------------------
(* Claims about the request handlers, checked under Spec *)

QueryOps == {"search_documents", "ask_question"}
Similarity(q, e) == CosineSimilarity(ProviderVector(q), e.embedding_vector)

\* process p finishes a search_documents or ask_question request in this step
Answers(p) == pc[p] \in {"idle", "query"} /\ pc'[p] = "done" /\ loc'[p].op \in QueryOps

C3_Answer(p) ==
    (Answers(p) /\ loc'[p].status = 200) =>
        LET r == loc'[p]
            S == r.authorized_doc_ids
            eligible == EligibleRows(S, MainQuery, similarity_threshold)
        IN  /\ \A i \in DOMAIN r.results :
                /\ r.results[i].document_id \in S
                /\ \E e \in eligible :
                    /\ e.id = r.results[i].embedding_id
                    /\ e.content_chunk = r.results[i].content_chunk
            /\ (r.search_outcome = "ok" /\ eligible # {}) =>
                /\ r.results # <<>>
                /\ \A e \in eligible :
                      r.results[1].similarity >= Similarity(MainQuery, e)
            /\ r.op = "ask_question" =>
                r.context = PrefixBlocks(r.results, BlockCount(r.context))

\* C3: the results of search_documents and the sources of ask_question are
\* rows the store holds for documents in the user's authorized id set, the
\* generation context is made of sources only, and when the search succeeds
\* the top hit among the authorized documents' rows is the first source.
C3_SourcesFromAuthorizedDocuments == [][\A p \in Procs : C3_Answer(p)]_vars

\* an answer with sources and context, while a document outside the
\* authorized set holds a row that matches the query
C3_Witness ==
    \E p \in Procs :
        /\ pc[p] = "done" /\ loc[p].op = "ask_question"
        /\ loc[p].results # <<>> /\ loc[p].context # <<>>
        /\ \E e \in embeddings :
            /\ e.document_id \in DOMAIN documents
            /\ e.document_id \notin loc[p].authorized_doc_ids
            /\ Similarity(MainQuery, e) > similarity_threshold

\* C4: when the policy service fails while the authorized documents are
\* computed, the request ends in an error without a search, without a result
\* or source and without a generation call; it never goes on to the query.
C4_AuthorizationFailureFailsClosed ==
    \A p \in Procs :
        /\ pc[p] = "query" => loc[p].authOk
        /\ (pc[p] = "done" /\ loc[p].op \in QueryOps /\ ~loc[p].authOk) =>
            /\ loc[p].status = 500
            /\ loc[p].search_outcome = "none"
            /\ loc[p].results = <<>>
            /\ ~loc[p].generated

\* a request that met the policy service failure while the store holds a
\* matching row
C4_Witness ==
    \E p \in Procs :
        /\ pc[p] = "done" /\ loc[p].op \in QueryOps /\ ~loc[p].authOk
        /\ \E e \in embeddings : Similarity(MainQuery, e) > similarity_threshold

\* C5: the rows a store_document_embeddings pass commits are all of the
\* document's chunks or none of them.
C5_StorePassAllOrNothing ==
    [][\A p \in Procs :
          (pc[p] = "embed" /\ pc'[p] = "done") =>
              LET added == embeddings' \ embeddings
              IN  added = {} \/ Cardinality(added) = Len(loc[p].chunks)]_vars

\* C6: the chunk_index values of a document's embedding rows are 0..k-1, with
\* no gap and no duplicate.
C6_ChunkIndicesDense ==
    \A d \in DocIds :
        LET rows == RowsOfDocument(embeddings, d)
        IN  /\ {e.chunk_index : e \in rows} = 0..(Cardinality(rows) - 1)
            /\ \A e1, e2 \in rows : e1.chunk_index = e2.chunk_index => e1 = e2

\* C7: a committed document row is never seen without its embedding rows,
\* and a document whose embedding storage failed does not stay.
C7_DocumentAndEmbeddingsInOneTransaction ==
    /\ \A d \in DOMAIN documents :
          documents[d].content # <<>> => RowsOfDocument(embeddings, d) # {}
    /\ \A p \in Procs :
          (pc[p] = "done" /\ loc[p].op = "create_document" /\ loc[p].status = 200
              /\ ~loc[p].embedding_success)
            => loc[p].document_id \notin DOMAIN documents

\* process p finishes a regenerate_embeddings request in this step
Regenerates(p) ==
    pc[p] = "idle" /\ pc'[p] = "done" /\ loc'[p].op = "regenerate_embeddings"

C8_Regeneration(p) ==
    LET r == loc'[p]
    IN  /\ (Regenerates(p) /\ r.status = 200) =>
            LET d == r.document_id
                rows == RowsOfDocument(embeddings', d)
                chunks == documents[d].content
            IN  /\ {e.id : e \in rows} = r.new_ids
                /\ r.new_ids \cap {e.id : e \in embeddings} = {}
                /\ {<<e.chunk_index, e.content_chunk>> : e \in rows}
                      = {<<k - 1, chunks[k]>> : k \in 1..Len(chunks)}
                /\ \A res \in similarity_search(documents', embeddings', MainQuery,
                                                max_results, similarity_threshold,
                                                SomeIds({d}), TRUE, TRUE) :
                      \A i \in DOMAIN res : res[i].embedding_id \in r.new_ids
        /\ (Regenerates(p) /\ r.status # 200) => embeddings' = embeddings
        /\ (pc[p] = "done" /\ loc[p].op = "regenerate_embeddings"
              /\ loc[p].status = 200) =>
              \A e \in embeddings' : e.id \notin loc[p].old_ids

\* C8: when a regeneration completes, the document's rows are exactly the
\* newly generated chunk set and a search over the document returns none of
\* the rows it had before, which never come back; a failed regeneration
\* leaves the rows as they were.
C8_RegenerationReplacesAllOrNothing == [][\A p \in Procs : C8_Regeneration(p)]_vars

\* a completed regeneration of a document that had rows, whose new rows a
\* search would return
C8_Witness ==
    \E p \in Procs :
        /\ pc[p] = "done" /\ loc[p].op = "regenerate_embeddings"
        /\ loc[p].status = 200
        /\ loc[p].old_ids # {}
        /\ \E e \in embeddings :
            /\ e.id \in loc[p].new_ids
            /\ Similarity(MainQuery, e) > similarity_threshold

C9_Step(p) ==
    /\ (pc[p] = "delete" /\ pc'[p] = "done") =>
          /\ loc'[p].status = 200
          /\ loc[p].document_id \notin DOMAIN documents'
          /\ RowsOfDocument(embeddings', loc[p].document_id) = {}
    /\ (Answers(p) /\ loc'[p].status = 200) =>
          \A i \in DOMAIN loc'[p].results :
              loc'[p].results[i].document_id \in DOMAIN documents

\* C9: a successful delete_document leaves no embedding row of the document,
\* a deleted document never comes back, no search returns a chunk of a
\* document that is gone, and every embedding row's document exists.
C9_DeleteRemovesEmbeddings ==
    [][/\ \A p \in Procs : C9_Step(p)
       /\ \A e \in embeddings' : e.document_id \in DOMAIN documents'
       /\ \A d \in DocIds :
             (d < nextDocId /\ d \notin DOMAIN documents) => d \notin DOMAIN documents'
      ]_vars

\* a document that had embedding rows has been deleted
C9_Witness ==
    \E p \in Procs :
        /\ pc[p] = "done" /\ loc[p].op = "delete_document" /\ loc[p].status = 200
        /\ loc[p].had_rows

----------------------------------------------------------------------------
(* Further claims about combine_chunks_for_context, checked under SpecCtx *)

\* C11: combine_chunks_for_context returns the empty string when the result
\* sequence is empty, when the budget is too small for the first block, and
\* for every result sequence when max_tokens is 0.
C11_EmptyWhenNothingFits ==
    CombineDone =>
        LET rs == call.search_results
        IN  (\/ rs = <<>>
             \/ call.max_tokens = 0
             \/ (rs # <<>> /\ ChunkTokens(rs[1].content_chunk) > 10 * call.max_tokens))
                => call.result = <<>>

----------------------------------------------------------------------------
(* Further claims about ask_question, checked under Spec *)

\* process p holds the response of a completed ask_question request
Asked(p) == pc[p] = "done" /\ loc[p].op = "ask_question" /\ loc[p].status = 200

\* C12: in every ask_question response, context_used is true exactly when a
\* non-empty context was passed to the generation call, and the no-context
\* disclaimer is appended to the answer exactly when context_used is false.
C12_ContextUsedAndDisclaimer ==
    \A p \in Procs :
        Asked(p) =>
            /\ loc[p].context_used <=> (loc[p].context # <<>>)
            /\ loc[p].disclaimer <=> ~loc[p].context_used

\* the results a search for process p's request can return at this point
SearchResultsFor(p) ==
    IF loc[p].authorized_doc_ids # {}
    THEN UNION {similarity_search(documents, embeddings, loc[p].query,
                                  EffectiveLimit(loc[p].limit), similarity_threshold,
                                  SomeIds(loc[p].authorized_doc_ids),
                                  outcome # "embedding_error",
                                  outcome # "query_error") :
                   outcome \in SearchOutcomes}
    ELSE {<<>>}

C13_Step(p) ==
    (pc[p] = "query" /\ pc'[p] = "done" /\ loc'[p].op = "ask_question"
        /\ ~loc'[p].genOk) =>
        /\ loc'[p].status = 200
        /\ loc'[p].response = "apology"
        /\ loc'[p].results \in SearchResultsFor(p)
        /\ loc'[p].context_used <=> (loc'[p].results # <<>>)

\* C13: when the generation provider call fails, ask_question still completes
\* with a normal (200) response whose text is the apologetic fallback, with
\* the sources and context_used it computed from the search.
C13_GenerationFailureDegrades == [][\A p \in Procs : C13_Step(p)]_vars

\* a response to a failed generation call that carries sources
C13_Witness ==
    \E p \in Procs :
        /\ Asked(p) /\ ~loc[p].genOk
        /\ loc[p].results # <<>> /\ loc[p].context_used

----------------------------------------------------------------------------
(* Further claims about similarity_search, checked under SpecSearch *)

\* result row a comes before result row b in the order C14 describes
RankedBefore(a, b) ==
    \/ a.similarity > b.similarity
    \/ /\ a.similarity = b.similarity
       /\ \/ a.document_id < b.document_id
          \/ a.document_id = b.document_id /\ a.chunk_index < b.chunk_index

\* C14: similarity_search returns its results in descending order of
\* similarity, rows of equal similarity ordered by lowest document_id and then
\* lowest chunk_index.
C14_OrderedWithTieBreak ==
    SearchDone =>
        \A i, j \in DOMAIN call.result :
            i < j => RankedBefore(call.result[i], call.result[j])

\* the allow-list a call's document_ids argument stands for
AllowList(document_ids) == IF document_ids = NoIds THEN DocIds ELSE document_ids[1]

\* C15: similarity_search returns at most limit results, no eligible row left
\* out has a strictly higher similarity than a returned row, and when the call
\* succeeds with more than limit rows eligible it returns limit rows.
C15_AtMostLimitTopRows ==
    (SearchDone /\ call.limit >= 0) =>
        LET eligible == EligibleRows(AllowList(call.document_ids), call.query_text,
                                     call.similarity_threshold)
            returned == {call.result[i].embedding_id : i \in DOMAIN call.result}
        IN  /\ Len(call.result) <= call.limit
            /\ \A e \in eligible :
                  e.id \notin returned =>
                      \A i \in DOMAIN call.result :
                          call.result[i].similarity
                              >= CosineSimilarity(ProviderVector(call.query_text),
                                                  e.embedding_vector)
            /\ (call.embOk /\ call.dbOk /\ Cardinality(eligible) > call.limit)
                  => Len(call.result) = call.limit

\* a successful call that left out an eligible row of lower similarity
C15_Witness ==
    /\ SearchDone /\ call.embOk /\ call.dbOk
    /\ call.limit >= 1 /\ Len(call.result) = call.limit
    /\ \E e \in EligibleRows(AllowList(call.document_ids), call.query_text,
                             call.similarity_threshold) :
          /\ e.id \notin {call.result[i].embedding_id : i \in DOMAIN call.result}
          /\ CosineSimilarity(ProviderVector(call.query_text), e.embedding_vector)
                < call.result[Len(call.result)].similarity

----------------------------------------------------------------------------
(* Further claims about ingestion, checked under SpecIngestion *)

\* process p ends a store_document_embeddings pass in this step
StorePassEnds(p) == pc[p] = "embed" /\ pc'[p] = "done"

C16_Step(p) ==
    StorePassEnds(p) =>
        /\ ~loc'[p].embedding_success => embeddings' = embeddings
        /\ loc'[p].embedding_success =>
              /\ embeddings \subseteq embeddings'
              /\ Cardinality(embeddings' \ embeddings) = Len(loc[p].pending)
        /\ (loc[p].pending # <<>> /\ loc[p].document_id \notin DOMAIN documents)
              => ~loc'[p].embedding_success

\* C16: when the store transaction of a store_document_embeddings pass fails,
\* no row of the pass remains, the rows committed before are unchanged and
\* the operation reports failure; it reports success only when the rows of
\* the pass are committed.
C16_FailedPassRolledBack == [][\A p \in Procs : C16_Step(p)]_vars

\* a pass with rows to store has failed while the store held earlier rows
C16_Witness ==
    \E p \in Procs :
        /\ pc[p] = "done" /\ loc[p].op = "create_document" /\ loc[p].status = 200
        /\ ~loc[p].embedding_success /\ loc[p].pass_rows > 0
        /\ embeddings # {}

\* process p holds the outcome of an ingestion of a document that still exists
Ingested(p) ==
    /\ pc[p] = "done" /\ loc[p].op = "create_document" /\ loc[p].status = 200
    /\ loc[p].document_id \in DOMAIN documents

\* C17: an ingestion in which the embedding of at least one chunk failed is
\* never reported like a fully successful one: the outcome store_document_embeddings
\* returns for it is not the success value.
C17_FailedChunksReported ==
    \A p \in Procs :
        (Ingested(p)
            /\ loc[p].pass_rows < Len(documents[loc[p].document_id].content))
          => ~loc[p].embedding_success

----------------------------------------------------------------------------
(* SpecEmbed: generate_embedding applied to drawn texts and provider outcomes *)

MaxEmbedLen == 4    \* SpecEmbed: texts have 0..MaxEmbedLen characters

EmbedTexts == UNION {[1..n -> Chars] : n \in 0..MaxEmbedLen}

\* how the provider call ends: it returns a vector, or raises for a cause
ProviderErrors == {"timeout", "quota", "invalid_request"}
ProviderOutcomes == {"ok"} \cup ProviderErrors

EmbedCall ==
    /\ call = NoCall
    /\ \E text \in EmbedTexts, provider \in ProviderOutcomes :
        call' = [op |-> "generate_embedding", text |-> text, provider |-> provider,
                 result |-> generate_embedding(text, provider = "ok")]
    /\ UNCHANGED <<documents, embeddings, nextDocId, nextEmbId, osoFacts, pc, loc,
                   users, patients, userFacts>>

NextEmbed == EmbedCall

SpecEmbed == InitCtx /\ [][NextEmbed]_vars

EmbedDone == call.op = "generate_embedding"

\* C18: when the provider call fails, what generate_embedding yields differs
\* from a produced vector and carries the cause of the failure: failures of
\* different causes yield different outcomes.
C18_FailureCarriesCause ==
    (EmbedDone /\ call.provider # "ok") =>
        /\ call.result # ProviderVector(call.text)
        /\ \A cause \in ProviderErrors \ {call.provider} :
              generate_embedding(call.text, cause = "ok") # call.result

----------------------------------------------------------------------------
(* chunk_text (rag_service/utils/text_processing.py) and SpecChunk *)

chunk_size == 1000
chunk_overlap == 200

\* faulty variant: the remainder after the last full window is dropped
RECURSIVE ChunksFromDroppingRemainder(_, _, _, _)
ChunksFromDroppingRemainder(text, start, size, overlap) ==
    IF Len(text) - start >= size
    THEN <<SubSeq(text, start + 1, start + size)>>
         \o ChunksFromDroppingRemainder(text, start + (size - overlap), size, overlap)
    ELSE <<>>

\* the window slides forward by size - overlap while a full window is left;
\* the remainder is the final chunk, left out only when it is empty and the
\* text is not
RECURSIVE ChunksFrom(_, _, _, _)
ChunksFrom(text, start, size, overlap) ==
    IF Len(text) - start >= size
    THEN <<SubSeq(text, start + 1, start + size)>>
         \o ChunksFrom(text, start + (size - overlap), size, overlap)
    ELSE IF start < Len(text) \/ Len(text) = 0
    THEN <<SubSeq(text, start + 1, Len(text))>>
    ELSE <<>>

chunk_text(text, size, overlap) == ChunksFrom(text, 0, size, overlap)

MaxChunkText == 5   \* SpecChunk: texts have 0..MaxChunkText characters
MaxChunkSize == 3   \* SpecChunk: largest chunk_size

ChunkInputs == UNION {[1..n -> Chars] : n \in 0..MaxChunkText}

ChunkCall ==
    /\ call = NoCall
    /\ \E text \in ChunkInputs, size \in 1..MaxChunkSize :
        \E overlap \in 0..(size - 1) :
            call' = [op |-> "chunk_text", text |-> text, chunk_size |-> size,
                     chunk_overlap |-> overlap,
                     result |-> chunk_text(text, size, overlap)]
    /\ UNCHANGED <<documents, embeddings, nextDocId, nextEmbId, osoFacts, pc, loc,
                   users, patients, userFacts>>

NextChunk == ChunkCall

SpecChunk == InitCtx /\ [][NextChunk]_vars

----------------------------------------------------------------------------
(* Claims about ingestion end to end, checked under SpecIngestion *)

\* the 2500-character document of the end-to-end example
ExampleDocument == [i \in 1..2500 |-> IF i % 7 = 0 THEN " " ELSE "a"]

\* its chunks under the configured chunk_size and chunk_overlap
ExampleChunks == chunk_text(ExampleDocument, chunk_size, chunk_overlap)

\* the (chunk_index, content_chunk) pairs of a set of rows
IndexedChunks(rows) == {<<e.chunk_index, e.content_chunk>> : e \in rows}

C19_Step(p) ==
    (StorePassEnds(p) /\ Len(loc[p].pending) = Len(loc[p].chunks)
        /\ loc'[p].embedding_success) =>
        LET d == loc[p].document_id
            chunks == loc[p].chunks
            rows == RowsOfDocument(embeddings', d)
        IN  /\ Cardinality(rows) = Len(chunks)
            /\ rows = embeddings' \ embeddings
            /\ IndexedChunks(rows) = {<<k - 1, chunks[k]>> : k \in 1..Len(chunks)}

----------------------------------------------------------------------------
(* Claims about chunk_text, checked under SpecChunk *)

ChunkDone == call.op = "chunk_text"

\* the chunks laid end to end, each after the first without its first
\* `overlap` characters
RECURSIVE Stitch(_, _)
Stitch(chunks, overlap) ==
    IF chunks = <<>> THEN <<>>
    ELSE IF Len(chunks) = 1 THEN chunks[1]
    ELSE LET rest == Stitch(Tail(chunks), overlap)
         IN  chunks[1] \o SubSeq(rest, overlap + 1, Len(rest))

\* C20: for chunk_size > overlap >= 0 and any text, the chunks cover the
\* whole text without a gap, consecutive chunks share exactly `overlap`
\* characters, every chunk but the last has chunk_size characters, the
\* remainder is kept, and no chunk is empty unless the text is.
C20_ChunksCoverWithOverlap ==
    ChunkDone =>
        LET cs == call.result
            o == call.chunk_overlap
        IN  /\ Stitch(cs, o) = call.text
            /\ \A i \in 1..(Len(cs) - 1) :
                  /\ Len(cs[i]) = call.chunk_size
                  /\ Len(cs[i + 1]) >= o
                  /\ SubSeq(cs[i], Len(cs[i]) - o + 1, Len(cs[i])) = SubSeq(cs[i + 1], 1, o)
            /\ \A i \in DOMAIN cs : Len(cs[i]) <= call.chunk_size
            /\ call.text # <<>> => (cs # <<>> /\ \A i \in DOMAIN cs : cs[i] # <<>>)

\* a text cut into three or more overlapping chunks, the last one short
C20_Witness ==
    /\ ChunkDone /\ call.chunk_overlap >= 1
    /\ Len(call.result) >= 3
    /\ Len(call.result[Len(call.result)]) < call.chunk_size
    /\ \E i \in DOMAIN call.text : call.text[i] # call.text[1]

----------------------------------------------------------------------------
(* SpecDim: similarity_search over a store written under the configured     *)
(* embedding model                                                          *)

\* settings.embedding_model: the default, or a value set in the environment
EmbeddingModels == {"text-embedding-3-small", "text-embedding-3-large"}

\* the model generate_embedding uses when its caller names none
DefaultModel == "text-embedding-3-small"

\* the length of the vectors the provider returns for a model
ModelDimension(model) ==
    IF model = "text-embedding-3-small" THEN 1536 ELSE 3072

\* a row as store_document_embeddings writes it with the configured model
RowWithModel(e, model) ==
    [id               |-> e.id,
     document_id      |-> e.document_id,
     content_chunk    |-> e.content_chunk,
     embedding_vector |-> e.embedding_vector,
     chunk_index      |-> e.chunk_index,
     dimension        |-> ModelDimension(model)]

\* the <=> operator raises when its operands differ in dimension
DistanceDefined(embs, query_dimension) ==
    \A e \in embs : e.dimension = query_dimension

InitDim ==
    /\ \E ins \in UNION {[1..n -> DocIds \X ChunkTexts] : n \in 0..MaxRows},
          model \in EmbeddingModels :
        /\ documents = [d \in DocIds |->
                          [title |-> SampleText(1), content |-> ContentOf(ins, d)]]
        /\ embeddings = {RowWithModel(e, model) : e \in RowsOf(ins)}
        /\ nextEmbId = Len(ins) + 1
    /\ nextDocId = MaxDocs + 1
    /\ osoFacts = DocIds
    /\ pc = [p \in Procs |-> "idle"]
    /\ loc = [p \in Procs |-> IdleLoc]
    /\ call = NoCall
    /\ users = EmptyTable
    /\ patients = EmptyTable
    /\ userFacts = {}

\* similarity_search: the query is embedded with the default model; every
\* exception, the database's included, ends in the except branch, so the
\* function never raises
SearchDimCall ==
    /\ call = NoCall
    /\ \E q \in QueryTexts, ids \in IdArguments, embOk \in BOOLEAN :
        LET query_dimension == ModelDimension(DefaultModel)
            dbOk == DistanceDefined(embeddings, query_dimension)
        IN  \E r \in similarity_search(documents, embeddings, q, MaxLimit,
                                       similarity_threshold, ids, embOk, dbOk) :
                call' = [op |-> "similarity_search", query_text |-> q,
                         document_ids |-> ids, embOk |-> embOk,
                         query_dimension |-> query_dimension,
                         raised |-> FALSE, result |-> r]
    /\ UNCHANGED <<documents, embeddings, nextDocId, nextEmbId, osoFacts, pc, loc,
                   users, patients, userFacts>>

NextDim == SearchDimCall

SpecDim == InitDim /\ [][NextDim]_vars

\* C21: the vectors of the store and the query vector compared with them
\* have one dimension, and a search whose query vector differs in dimension
\* from a stored vector ends in an explicit error.
C21_DimensionMismatchFailsLoudly ==
    /\ \A e1, e2 \in embeddings : e1.dimension = e2.dimension
    /\ (SearchDone /\ call.embOk
            /\ \E e \in embeddings : e.dimension # call.query_dimension)
          => call.raised

----------------------------------------------------------------------------
(* SpecPrompt: generate_ai_response applied to drawn roles and results *)

\* current_user.role is a free string column: the known roles and others
UserRoles == Roles \cup {"patient", ""}

PromptResultLists == {rs \in CtxResultLists : Len(rs) <= 1}

PromptCall ==
    /\ call = NoCall
    /\ \E user_role \in UserRoles, rs \in PromptResultLists,
          question \in QueryTexts, genOk \in BOOLEAN :
        LET ai == generate_ai_response(question, rs, user_role, genOk)
        IN  call' = [op |-> "generate_ai_response", question |-> question,
                     context_results |-> rs, user_role |-> user_role,
                     genOk |-> genOk, messages |-> ai.messages,
                     context |-> ai.context, text |-> ai.text,
                     disclaimer |-> ai.disclaimer]
    /\ UNCHANGED <<documents, embeddings, nextDocId, nextEmbId, osoFacts, pc, loc,
                   users, patients, userFacts>>

NextPrompt == PromptCall

SpecPrompt == InitCtx /\ [][NextPrompt]_vars

PromptDone == call.op = "generate_ai_response"

\* C22: each of the roles doctor, nurse and admin has its own instruction,
\* the three differ pairwise, any other role gets the one default
\* instruction, and the role instruction is the first message of the
\* generation call and the only one: the other messages are the context and
\* the question.
C22_RoleInstructionLookup ==
    PromptDone =>
        LET ms == call.messages
        IN  /\ Len(ms) >= 2
            /\ ms[1].role = "system"
            /\ call.user_role = "doctor" => ms[1].content = "doctor_prompt"
            /\ call.user_role = "nurse" => ms[1].content = "nurse_prompt"
            /\ call.user_role = "admin" => ms[1].content = "admin_prompt"
            /\ call.user_role \notin Roles => ms[1].content = "admin_prompt"
            /\ \A r \in Roles \ {call.user_role} :
                  call.user_role \in Roles => SystemPrompt(r) # ms[1].content
            /\ ms[Len(ms)] = [role |-> "user", content |-> call.question]
            /\ \A i \in 2..(Len(ms) - 1) :
                  ms[i] = [role |-> "system", content |-> call.context]
            /\ Len(ms) <= 3

\* a call for a nurse with a context message
C22_Witness ==
    /\ PromptDone /\ call.user_role = "nurse"
    /\ Len(call.messages) = 3 /\ call.context # <<>>

----------------------------------------------------------------------------
(* SpecTokens: the token estimate of combine_chunks_for_context applied to *)
(* pairs of chunk texts                                                     *)

EstimateCall ==
    /\ call = NoCall
    /\ \E longer \in EmbedTexts, shorter \in EmbedTexts :
        /\ Len(longer) >= Len(shorter)
        /\ call' = [op |-> "chunk_tokens", longer |-> longer, shorter |-> shorter,
                    longer_tokens |-> ChunkTokens(longer),
                    shorter_tokens |-> ChunkTokens(shorter)]
    /\ UNCHANGED <<documents, embeddings, nextDocId, nextEmbId, osoFacts, pc, loc,
                   users, patients, userFacts>>

NextTokens == EstimateCall

SpecTokens == InitCtx /\ [][NextTokens]_vars

EstimateDone == call.op = "chunk_tokens"

\* C23: the token estimate is the same for the same chunk text, and of two
\* chunk texts the longer one receives the higher estimate.
C23_EstimateMonotoneInLength ==
    EstimateDone =>
        /\ call.longer = call.shorter => call.longer_tokens = call.shorter_tokens
        /\ Len(call.longer) > Len(call.shorter)
              => call.longer_tokens > call.shorter_tokens

----------------------------------------------------------------------------
(* SpecSeed: the seeding script, run again and again over databases that   *)
(* already hold some rows                                                   *)

MaxSeedRuns == 3    \* SpecSeed: runs of main in one behaviour

demo_users ==
    << [username |-> "dr_smith", email |-> "sarah.smith@hospital.com",
        role |-> "doctor"],
       [username |-> "nurse_johnson", email |-> "michael.johnson@hospital.com",
        role |-> "nurse"],
       [username |-> "admin_wilson", email |-> "jennifer.wilson@hospital.com",
        role |-> "admin"] >>

demo_patients ==
    << [name |-> "John Anderson", medical_record_number |-> "MRN-2024-001"],
       [name |-> "Maria Rodriguez", medical_record_number |-> "MRN-2024-002"],
       [name |-> "Robert Chen", medical_record_number |-> "MRN-2024-003"] >>

demo_documents ==
    << [title |-> <<"Cardiology Department Protocols">>],
       [title |-> <<"Hypertension Management Guidelines">>],
       [title |-> <<"Heart Failure Patient Education">>] >>

\* the one patient document is made for the first patient of the list
patient_docs(table, created_patients) ==
    IF created_patients = <<>> THEN <<>>
    ELSE << [title |-> <<"Medical History - ", table[created_patients[1]].name>>,
             patient_id |-> <<created_patients[1]>>] >>

\* db.add, db.commit, db.refresh: the row gets the next id of its table
AddRow(table, row) ==
    [id \in DOMAIN table \cup {Cardinality(DOMAIN table) + 1} |->
        IF id \in DOMAIN table THEN table[id] ELSE row]

Remember(created, key, id) ==
    [k \in DOMAIN created \cup {key} |-> IF k = key THEN id ELSE created[k]]

\* query(...).filter(...).first() of the seeding loops
ExistingUsername(table, username) ==
    {id \in DOMAIN table : table[id].username = username}

ExistingEmail(table, email) ==
    {id \in DOMAIN table : table[id].email = email}

ExistingPatient(table, mrn) ==
    {id \in DOMAIN table : table[id].medical_record_number = mrn}

ExistingDocNeverFound(docs, title) == {}

ExistingDoc(docs, title) ==
    {id \in DOMAIN docs : docs[id].title = title}

ExistingPatientDoc(docs, title, patient_id) ==
    {id \in DOMAIN docs :
        docs[id].title = title /\ docs[id].patient_id = patient_id}

First(ids) == CHOOSE id \in ids : \A other \in ids : id <= other

RECURSIVE seed_users(_, _, _)
seed_users(i, table, created) ==
    IF i > Len(demo_users) THEN [table |-> table, created |-> created]
    ELSE LET user_data == demo_users[i]
             existing_user == ExistingUsername(table, user_data.username)
             existing_email == ExistingEmail(table, user_data.email)
         IN  IF existing_user # {}
             THEN seed_users(i + 1, table,
                      Remember(created, user_data.username, First(existing_user)))
             ELSE IF existing_email # {}
             THEN seed_users(i + 1, table, created)
             ELSE seed_users(i + 1, AddRow(table, user_data),
                      Remember(created, user_data.username,
                               Cardinality(DOMAIN table) + 1))

RECURSIVE seed_patients(_, _, _, _)
seed_patients(i, table, doctor, created) ==
    IF i > Len(demo_patients) THEN [table |-> table, created |-> created]
    ELSE LET patient_data == demo_patients[i]
             existing_patient ==
                 ExistingPatient(table, patient_data.medical_record_number)
         IN  IF existing_patient # {}
             THEN seed_patients(i + 1, table, doctor,
                      Append(created, First(existing_patient)))
             ELSE seed_patients(i + 1,
                      AddRow(table,
                          [name |-> patient_data.name,
                           medical_record_number |->
                               patient_data.medical_record_number,
                           assigned_doctor_id |-> <<doctor>>]),
                      doctor, Append(created, Cardinality(DOMAIN table) + 1))

RECURSIVE seed_general_documents(_, _)
seed_general_documents(i, docs) ==
    IF i > Len(demo_documents) THEN docs
    ELSE LET doc_data == demo_documents[i]
         IN  IF ExistingDoc(docs, doc_data.title) # {}
             THEN seed_general_documents(i + 1, docs)
             ELSE seed_general_documents(i + 1,
                      AddRow(docs, [title |-> doc_data.title,
                                    content |-> doc_data.title,
                                    patient_id |-> <<>>]))

RECURSIVE seed_patient_documents(_, _, _)
seed_patient_documents(i, docs, todo) ==
    IF i > Len(todo) THEN docs
    ELSE LET doc_data == todo[i]
         IN  IF ExistingPatientDoc(docs, doc_data.title, doc_data.patient_id) # {}
             THEN seed_patient_documents(i + 1, docs, todo)
             ELSE seed_patient_documents(i + 1,
                      AddRow(docs, [title |-> doc_data.title,
                                    content |-> doc_data.title,
                                    patient_id |-> doc_data.patient_id]),
                      todo)

\* rows a database may hold before the script runs: demo rows of an earlier
\* run, and rows of other origin that carry a demo username, email, medical
\* record number or title
PriorUsers ==
    << demo_users[1],
       [username |-> "s_smith", email |-> "sarah.smith@hospital.com",
        role |-> "nurse"],
       [username |-> "nurse_johnson", email |-> "mj@clinic.org",
        role |-> "nurse"],
       demo_users[3] >>

PriorPatients ==
    << [name |-> "John Anderson", medical_record_number |-> "MRN-2024-001",
        assigned_doctor_id |-> <<>>],
       [name |-> "Jane Doe", medical_record_number |-> "MRN-2024-001",
        assigned_doctor_id |-> <<>>],
       [name |-> "Maria Rodriguez", medical_record_number |-> "MRN-2024-002",
        assigned_doctor_id |-> <<>>] >>

PriorDocuments ==
    << [title |-> <<"Cardiology Department Protocols">>,
        content |-> <<"Cardiology Department Protocols">>, patient_id |-> <<>>],
       [title |-> <<"Medical History - ", "John Anderson">>,
        content |-> <<"Medical History - ", "John Anderson">>,
        patient_id |-> <<1>>],
       [title |-> <<"Hypertension Management Guidelines">>,
        content |-> <<"an older text">>, patient_id |-> <<1>>] >>

Keep(rows, kept) == SelectSeq(rows, LAMBDA r : r \in kept)

InitSeed ==
    /\ \E kept \in SUBSET Range(PriorUsers) :
        /\ \A a \in kept, b \in kept :
              (a.username = b.username \/ a.email = b.email) => a = b
        /\ users = Keep(PriorUsers, kept)
    /\ \E kept \in SUBSET Range(PriorPatients) :
        /\ \A a \in kept, b \in kept :
              a.medical_record_number = b.medical_record_number => a = b
        /\ patients = Keep(PriorPatients, kept)
    /\ \E kept \in SUBSET Range(PriorDocuments) :
        /\ \A d \in kept : Range(d.patient_id) \subseteq DOMAIN patients
        /\ documents = Keep(PriorDocuments, kept)
    /\ embeddings = EmptyTable
    /\ nextDocId = 1
    /\ nextEmbId = 1
    /\ osoFacts = {}
    /\ userFacts = {}
    /\ pc = [p \in Procs |-> "idle"]
    /\ loc = [p \in Procs |-> IdleLoc]
    /\ call = NoCall

\* main starts and runs seed_users
SeedUsers ==
    /\ \/ call = NoCall
       \/ call.op = "seed" /\ call.step = "done" /\ call.run < MaxSeedRuns
    /\ LET seeded == seed_users(1, users, EmptyTable)
       IN  /\ users' = seeded.table
           /\ call' = [op |-> "seed",
                       run |-> IF call = NoCall THEN 1 ELSE call.run + 1,
                       step |-> "seed_patients",
                       users |-> seeded.created, patients |-> <<>>]
    /\ UNCHANGED <<documents, embeddings, nextDocId, nextEmbId, osoFacts, pc, loc,
                   patients, userFacts>>

SeedPatients ==
    /\ call.op = "seed" /\ call.step = "seed_patients"
    /\ LET seeded ==
               IF "dr_smith" \notin DOMAIN call.users
               THEN [table |-> patients, created |-> <<>>]
               ELSE seed_patients(1, patients, call.users["dr_smith"], <<>>)
       IN  /\ patients' = seeded.table
           /\ call' = [call EXCEPT !.step = "seed_documents",
                                   !.patients = seeded.created]
    /\ UNCHANGED <<documents, embeddings, nextDocId, nextEmbId, osoFacts, pc, loc,
                   users, userFacts>>

SeedDocuments ==
    /\ call.op = "seed" /\ call.step = "seed_documents"
    /\ documents' =
           IF "dr_smith" \notin DOMAIN call.users THEN documents
           ELSE seed_patient_documents(1, seed_general_documents(1, documents),
                                       patient_docs(patients, call.patients))
    /\ call' = [call EXCEPT !.step = "done"]
    /\ UNCHANGED <<embeddings, nextDocId, nextEmbId, osoFacts, pc, loc,
                   users, patients, userFacts>>

NextSeed == SeedUsers \/ SeedPatients \/ SeedDocuments

SpecSeed == InitSeed /\ [][NextSeed]_vars

NewRows(before, after) == DOMAIN after \ DOMAIN before

\* C24: a run of main after the first one leaves the user, patient and
\* document rows as they are, and no run adds a row whose username, email,
\* medical record number or title (for the same patient) another row of the
\* table carries.
C24_Step ==
    /\ (call'.op = "seed" /\ call'.run >= 2) =>
          /\ users' = users
          /\ patients' = patients
          /\ documents' = documents
    /\ \A id \in NewRows(users, users') : \A other \in DOMAIN users' \ {id} :
          /\ users'[id].username # users'[other].username
          /\ users'[id].email # users'[other].email
    /\ \A id \in NewRows(patients, patients') :
          \A other \in DOMAIN patients' \ {id} :
              patients'[id].medical_record_number
                  # patients'[other].medical_record_number
    /\ \A id \in NewRows(documents, documents') :
          \A other \in DOMAIN documents' \ {id} :
              \/ documents'[id].title # documents'[other].title
              \/ documents'[id].patient_id # documents'[other].patient_id

C24_SeedingIdempotent == [][C24_Step]_vars

\* a second run has ended on a database that holds the three demo users, the
\* three demo patients and the four demo documents
C24_Witness ==
    /\ call.op = "seed" /\ call.run = 2 /\ call.step = "done"
    /\ Cardinality(DOMAIN users) = 3
    /\ Cardinality(DOMAIN patients) = 3
    /\ Cardinality(DOMAIN documents) = 4
    /\ documents[4].patient_id = <<1>>

----------------------------------------------------------------------------
(* Visibility of a store pass to concurrent readers, checked under        *)
(* SpecIngestion                                                           *)

\* process p is inside the loop of store_document_embeddings or at its commit
PassInProgress(p) == p \in Ingesters /\ pc[p] = "embed"

C25_Step ==
    \A p \in Ingesters :
        PassInProgress(p) =>
            /\ RowsOfDocument(embeddings, loc[p].document_id) = {}
            /\ \A q \in Requesters :
                  (pc[q] = "query" /\ pc'[q] = "done") =>
                      \A k \in 1..Len(loc'[q].results) :
                          loc'[q].results[k].document_id # loc[p].document_id

\* C25: while a store pass is between its first chunk and its commit, the
\* embeddings table holds no row of the pass, and a search that runs at that
\* point returns rows of earlier passes only.
C25_PassInvisibleBeforeCommit == [][C25_Step]_vars

\* a search that was authorized for the document of the pass in progress has
\* returned rows of an earlier pass while rows of the pass wait in the session
C25_Witness ==
    \E p \in Ingesters, q \in Requesters :
        /\ PassInProgress(p) /\ Len(loc[p].pending) >= 1
        /\ pc[q] = "done" /\ loc[q].op = "search_documents"
        /\ loc[q].search_outcome = "ok"
        /\ loc[p].document_id \in loc[q].authorized_doc_ids
        /\ loc[q].results # <<>>

\* C26: for every pattern of chunk embedding successes and failures, a row
\* the pass holds or stores with chunk_index i carries the chunk at position
\* i of the input (counted from 0), and no two rows of the pass have the same
\* chunk_index.
C26_Step ==
    \A p \in Ingesters :
        /\ PassInProgress(p) =>
              \A k \in 1..Len(loc[p].pending) :
                  LET row == loc[p].pending[k]
                  IN  /\ row.chunk_index \in 0..(Len(loc[p].chunks) - 1)
                      /\ row.content_chunk = loc[p].chunks[row.chunk_index + 1]
                      /\ \A j \in 1..Len(loc[p].pending) :
                            loc[p].pending[j].chunk_index = row.chunk_index
                                => j = k
        /\ (StorePassEnds(p) /\ loc'[p].embedding_success) =>
              \A e \in embeddings' \ embeddings :
                  /\ e.document_id = loc[p].document_id
                  /\ e.chunk_index \in 0..(Len(loc[p].chunks) - 1)
                  /\ e.content_chunk = loc[p].chunks[e.chunk_index + 1]
                  /\ \A f \in embeddings' \ embeddings :
                        f.chunk_index = e.chunk_index => f = e

C26_ChunkIndexFixedAtChunkTime == [][C26_Step]_vars

\* a pass over two chunks has stored the second chunk only, with index 1
C26_Witness ==
    \E p \in Ingesters :
        /\ Ingested(p) /\ loc[p].embedding_success /\ loc[p].pass_rows = 1
        /\ \E e \in RowsOfDocument(embeddings, loc[p].document_id) :
              e.chunk_index = 1 /\ e.content_chunk = SampleText(MaxText)

----------------------------------------------------------------------------
(* Further claims about the request handlers, checked under Spec *)

\* process p holds the response of a completed search or question
Answered(p) ==
    /\ pc[p] = "done" /\ loc[p].op \in {"search_documents", "ask_question"}
    /\ loc[p].status = 200

\* C27: similarity_search is only ever called with a non-empty list of
\* document ids: with no authorized document search_documents answers with
\* zero results and ask_question goes on with no sources and context_used
\* false, in both cases without a search.
C27_NoSearchWithoutDocuments ==
    \A p \in Procs :
        /\ pc[p] = "query" => loc[p].op = "ask_question"
                              \/ loc[p].authorized_doc_ids # {}
        /\ Answered(p) =>
              /\ loc[p].search_outcome # "none" => loc[p].authorized_doc_ids # {}
              /\ loc[p].authorized_doc_ids = {} =>
                    /\ loc[p].search_outcome = "none"
                    /\ loc[p].results = <<>>
                    /\ loc[p].op = "search_documents" => loc[p].total_results = 0
                    /\ loc[p].op = "ask_question" =>
                          ~loc[p].context_used /\ loc[p].context = <<>>

\* a question was answered for a user with no authorized document while the
\* store held rows
C27_Witness ==
    \E p \in Procs :
        /\ Answered(p) /\ loc[p].op = "ask_question"
        /\ loc[p].authorized_doc_ids = {} /\ loc[p].generated
        /\ embeddings # {}

\* C28: when the embedding of the question or the similarity query fails,
\* the search gives the empty list and the question is answered with no
\* sources, context_used false and the no-context disclaimer, like a question
\* that matched nothing.
C28_SearchFailureAnsweredWithDisclaimer ==
    \A p \in Procs :
        (Answered(p) /\ loc[p].op = "ask_question"
            /\ loc[p].search_outcome \in {"embedding_error", "query_error"}) =>
            /\ loc[p].results = <<>>
            /\ ~loc[p].context_used
            /\ loc[p].context = <<>>
            /\ loc[p].disclaimer

----------------------------------------------------------------------------
(* SpecSync: the handlers that write authorization facts, create_document, *)
(* delete_document, create_user and update_user, as concurrent processes   *)

MaxUsers == 2       \* SpecSync: users ever created in one behaviour

\* UserCreate bodies of the requests: the second has the email of the first,
\* the third has the username of the second
UserBodies ==
    {[username |-> "dr_smith", email |-> "sarah.smith@hospital.com",
      role |-> "doctor", department |-> "cardiology"],
     [username |-> "nurse_johnson", email |-> "sarah.smith@hospital.com",
      role |-> "admin", department |-> "cardiology"],
     [username |-> "nurse_johnson", email |-> "michael.johnson@hospital.com",
      role |-> "admin", department |-> "emergency"]}

\* create_user: "(User.username == user_data.username) |
\* (User.email == user_data.email)"
Registered(table, user_data) ==
    {id \in DOMAIN table : \/ table[id].username = user_data.username
                           \/ table[id].email = user_data.email}

\* create_user, the whole handler
CreateUser(p) ==
    /\ p \in Requesters
    /\ pc[p] = "idle"
    /\ \E current_role \in Roles, user_data \in UserBodies, syncOk \in BOOLEAN :
        IF current_role # "admin"
        THEN /\ Finish(p, [op |-> "create_user", status |-> 403])
             /\ UNCHANGED <<users, userFacts>>
        ELSE IF Registered(users, user_data) # {}
        THEN /\ Finish(p, [op |-> "create_user", status |-> 400])
             /\ UNCHANGED <<users, userFacts>>
        ELSE LET user_id == Cardinality(DOMAIN users) + 1
                 sync_attempted == user_data.role = "admin"
             IN  /\ user_id <= MaxUsers
                 /\ users' = AddRow(users, user_data)
                 /\ userFacts' = IF sync_attempted /\ syncOk
                                 THEN userFacts \cup {user_id} ELSE userFacts
                 /\ Finish(p, [op |-> "create_user",
                               status |-> IF sync_attempted => HandlerContinues(syncOk)
                                          THEN 200 ELSE 500,
                               user_id |-> user_id, user |-> user_data,
                               sync_failed |-> sync_attempted /\ ~syncOk])
    /\ UNCHANGED <<documents, embeddings, nextDocId, nextEmbId, osoFacts, call,
                   patients>>

\* update_user, the whole handler
UpdateUser(p) ==
    /\ p \in Requesters
    /\ pc[p] = "idle"
    /\ \E user_id \in 1..MaxUsers, authorized \in BOOLEAN,
          user_update \in UserBodies, syncOk \in BOOLEAN :
        IF user_id \notin DOMAIN users
        THEN /\ Finish(p, [op |-> "update_user", status |-> 404])
             /\ UNCHANGED <<users, userFacts>>
        ELSE IF ~authorized
        THEN /\ Finish(p, [op |-> "update_user", status |-> 403])
             /\ UNCHANGED <<users, userFacts>>
        ELSE LET old_role == users[user_id].role
                 old_department == users[user_id].department
                 sync_attempted == \/ old_role # user_update.role
                                   \/ old_department # user_update.department
             IN  /\ users' = [users EXCEPT ![user_id] = user_update]
                 /\ userFacts' = IF sync_attempted /\ syncOk
                                 THEN userFacts \cup {user_id} ELSE userFacts
                 /\ Finish(p, [op |-> "update_user",
                               status |-> IF sync_attempted => HandlerContinues(syncOk)
                                          THEN 200 ELSE 500,
                               user_id |-> user_id, user |-> user_update,
                               sync_failed |-> sync_attempted /\ ~syncOk])
    /\ UNCHANGED <<documents, embeddings, nextDocId, nextEmbId, osoFacts, call,
                   patients>>

NextSync ==
    \E p \in Procs :
        \/ CreateDocument(p)
        \/ EmbedChunk(p)
        \/ CommitEmbeddings(p)
        \/ DeleteDocument(p)
        \/ DeleteCommit(p)
        \/ CreateUser(p)
        \/ UpdateUser(p)
        \/ Return(p)

SpecSync == Init /\ [][NextSync]_vars

\* process p ends a request of the named handler with this step
Ends(p, op) == pc[p] # "done" /\ pc'[p] = "done" /\ loc'[p].op = op

C29_Step(p) ==
    /\ Ends(p, "create_document") /\ pc[p] = "embed" =>
          /\ loc'[p].status = 200
          /\ loc[p].document_id \notin osoFacts' =>
                /\ documents' = documents
                /\ embeddings \subseteq embeddings'
                /\ loc'[p].embedding_success =>
                      Cardinality(embeddings' \ embeddings) = Len(loc[p].pending)
    /\ (pc[p] = "idle" /\ pc'[p] = "delete") =>
          /\ loc'[p].document_id \in DOMAIN documents'
          /\ documents' = documents /\ embeddings' = embeddings
    /\ Ends(p, "delete_document") =>
          /\ loc'[p].status \in {200, 403, 404}
          /\ pc[p] = "delete" =>
                /\ loc'[p].status = 200
                /\ osoFacts' = osoFacts
                /\ loc[p].document_id \notin DOMAIN documents'
                /\ RowsOfDocument(embeddings', loc[p].document_id) = {}
    /\ Ends(p, "update_user") =>
          /\ loc'[p].status \in {200, 403, 404}
          /\ loc'[p].status = 200 =>
                /\ users'[loc'[p].user_id] = loc'[p].user
                /\ loc'[p].sync_failed => userFacts' = userFacts
    /\ Ends(p, "create_user") =>
          /\ loc'[p].status \in {200, 400, 403}
          /\ loc'[p].status = 200 =>
                /\ loc'[p].user_id \notin DOMAIN users
                /\ users'[loc'[p].user_id] = loc'[p].user
                /\ loc'[p].sync_failed => userFacts' = userFacts

\* C29: a failing synchronisation of authorization facts neither fails nor
\* undoes the request.  create_document returns the document with the
\* document and the rows of its pass committed; delete_document removes the
\* facts while the document row is still there and then deletes the
\* document and its embeddings whether or not the removal worked;
\* update_user and create_user leave the committed user row in place.
C29_SyncFailureKeepsRequest == [][\A p \in Procs : C29_Step(p)]_vars

\* a user update whose synchronisation failed has been answered, while one
\* document is deleted with its facts still in the policy service and
\* another is stored with embeddings and without facts
C29_Witness ==
    /\ \E p \in Procs :
          /\ pc[p] = "done" /\ loc[p].op = "update_user" /\ loc[p].status = 200
          /\ loc[p].sync_failed
    /\ \E d \in osoFacts : d \notin DOMAIN documents
    /\ \E d \in DOMAIN documents :
          d \notin osoFacts /\ RowsOfDocument(embeddings, d) # {}

\* C30: whatever create_user and update_user requests have run, no two user
\* rows have the same username and no two have the same email.
C30_UsernamesAndEmailsUnique ==
    \A a \in DOMAIN users, b \in DOMAIN users :
        a # b => /\ users[a].username # users[b].username
                 /\ users[a].email # users[b].email

====
